---- MODULE Spec2Model ----
(***************************************************************************)
(* The registration form of src/App.tsx: a zod schema resolved by          *)
(* react-hook-form (useForm + zodResolver), a dynamic list of skill        *)
(* entries (useFieldArray), and the submit handler that captures the       *)
(* validated record and resets the form.                                   *)
(*                                                                         *)
(* Strings are sequences of one-character strings, so that length, trim    *)
(* and the regular expressions of the schema are computed, not assumed.    *)
(* Error messages are opaque and are kept as plain strings.                *)
(***************************************************************************)
EXTENDS Integers, Sequences, FiniteSets, TLC

VARIABLES
    values,         \* the scalar form values: firstName .. message
    fields,         \* the skills list: sequence of [id, value]
    errors,         \* formState.errors: set of [path, message]
    submittedData,  \* useState<FormData | null>: <<>> is null, <<d>> is d
    isSubmitted,    \* formState.isSubmitted (drives re-validation on change)
    usedIds         \* every identity generateId has handed out so far

vars == <<values, fields, errors, submittedData, isSubmitted, usedIds>>

-----------------------------------------------------------------------------
(* Bounds of the model *)

MaxSkills == 2
MaxIds == 3
MaxStrLen == 2
MaxContactLen == 11

-----------------------------------------------------------------------------
(* Characters and strings *)

Digits == {"0", "1", "2", "3", "4", "5", "6", "7", "8", "9"}

Lower == {"a", "b", "c", "d", "e", "f", "g", "h", "i", "j", "k", "l", "m",
          "n", "o", "p", "q", "r", "s", "t", "u", "v", "w", "x", "y", "z"}

Upper == {"A", "B", "C", "D", "E", "F", "G", "H", "I", "J", "K", "L", "M",
          "N", "O", "P", "Q", "R", "S", "T", "U", "V", "W", "X", "Y", "Z"}

Letters == Lower \cup Upper

\* what String.prototype.trim strips (the members a text input can hold)
WhiteSpace == {" ", "\t"}

EmptyStr == <<>>

\* String.prototype.trim without the trim: the mutant of trim
trimNothing(s) == s

RECURSIVE trimStart(_)
trimStart(s) ==
    IF s # <<>> /\ Head(s) \in WhiteSpace THEN trimStart(Tail(s)) ELSE s

RECURSIVE trimEnd(_)
trimEnd(s) ==
    IF s # <<>> /\ s[Len(s)] \in WhiteSpace
    THEN trimEnd(SubSeq(s, 1, Len(s) - 1))
    ELSE s

\* val.trim()
trim(s) == trimEnd(trimStart(s))

-----------------------------------------------------------------------------
(* The schema (zod) *)

ContactDigits == 10

Issue(p, m) == [path |-> p, message |-> m]

\* z.string().min(1, required).refine(val => val.trim() !== "", spaces):
\* a failed min check does not abort, the refinement still runs
requiredNonBlank(p, v, required, spaces) ==
    (IF Len(v) < 1 THEN <<Issue(p, required)>> ELSE <<>>)
    \o (IF trim(v) = EmptyStr THEN <<Issue(p, spaces)>> ELSE <<>>)

firstNameIssues(v) ==
    requiredNonBlank(<<"firstName">>, v, "First Name is required",
                     "First Name cannot be empty spaces")

lastNameIssues(v) ==
    requiredNonBlank(<<"lastName">>, v, "Last Name is required",
                     "Last Name cannot be empty spaces")

\* the positions of character c in s
Positions(s, c) == {i \in 1..Len(s) : s[i] = c}

\* ([A-Z0-9_'+\-\.]*)[A-Z0-9_+-] , case-insensitive
LocalChars == Letters \cup Digits \cup {"_", "'", "+", "-", "."}
LocalLast == Letters \cup Digits \cup {"_", "+", "-"}

\* ([A-Z0-9][A-Z0-9\-]*\.)+[A-Z]{2,} : the domain is split at its dots;
\* every label but the last starts with a letter or digit and goes on with
\* letters, digits or dashes, and the last is two or more letters
LabelOk(d, from, to) ==
    /\ from <= to
    /\ d[from] \in Letters \cup Digits
    /\ \A i \in from..to : d[i] \in Letters \cup Digits \cup {"-"}

DomainOk(d) ==
    LET dots == Positions(d, ".")
        lastDot == CHOOSE i \in dots : \A j \in dots : j <= i
        starts == {1} \cup {i + 1 : i \in dots \ {lastDot}}
        EndOf(b) == (CHOOSE i \in dots : i >= b /\ \A j \in dots : j >= b => i <= j) - 1
    IN  /\ dots # {}
        /\ Len(d) - lastDot >= 2
        /\ \A i \in (lastDot + 1)..Len(d) : d[i] \in Letters
        /\ \A b \in starts : LabelOk(d, b, EndOf(b))

\* z.string().email(): /^(?!\.)(?!.*\.\.)([A-Z0-9_'+\-\.]*)[A-Z0-9_+-]@
\*                      ([A-Z0-9][A-Z0-9\-]*\.)+[A-Z]{2,}$/i
isEmail(s) ==
    LET ats == Positions(s, "@")
        at == CHOOSE i \in ats : TRUE
        local == SubSeq(s, 1, at - 1)
        domain == SubSeq(s, at + 1, Len(s))
    IN  /\ Cardinality(ats) = 1
        /\ Len(local) >= 1
        /\ local[1] # "."
        /\ \A i \in 1..(Len(s) - 1) : ~(s[i] = "." /\ s[i + 1] = ".")
        /\ \A i \in 1..Len(local) : local[i] \in LocalChars
        /\ local[Len(local)] \in LocalLast
        /\ DomainOk(domain)

emailIssues(v) ==
    (IF Len(v) < 1 THEN <<Issue(<<"email">>, "Email is required")>> ELSE <<>>)
    \o (IF ~isEmail(v) THEN <<Issue(<<"email">>, "Invalid email address")>> ELSE <<>>)

\* /^[0-9]{10}$/ with any number of digits accepted: the mutant of contactRegex
contactRegexUnanchored(s) ==
    /\ Len(s) >= ContactDigits
    /\ \A i \in 1..ContactDigits : s[i] \in Digits

\* /^[0-9]{10}$/
contactRegex(s) ==
    /\ Len(s) = ContactDigits
    /\ \A i \in 1..Len(s) : s[i] \in Digits

contactIssues(v) ==
    (IF Len(v) < 1
     THEN <<Issue(<<"contact">>, "Contact number is required")>> ELSE <<>>)
    \o (IF ~contactRegex(v)
        THEN <<Issue(<<"contact">>, "Contact must be 10 digits")>> ELSE <<>>)

\* role: z.string().min(1, ...) restricted to the options of the select:
\* the mutant of roleIssues
roleIssuesEnum(v) ==
    IF v \notin {<<"s","t","u","d","e","n","t">>,
                 <<"d","e","v","e","l","o","p","e","r">>,
                 <<"d","e","s","i","g","n","e","r">>}
    THEN <<Issue(<<"role">>, "Role is required")>> ELSE <<>>

\* role: z.string().min(1, "Role is required")
roleIssues(v) ==
    IF Len(v) < 1 THEN <<Issue(<<"role">>, "Role is required")>> ELSE <<>>

skillPath(i) == <<"skills", i, "value">>

\* every entry's issue reported at the first entry: the mutant of skillIssues
skillIssuesAtFirst(i, v) ==
    requiredNonBlank(skillPath(1), v, "Skill is required",
                     "Skill cannot be empty spaces")

\* z.object({ value: z.string().min(1, ..).refine(..) })
skillIssues(i, v) ==
    requiredNonBlank(skillPath(i), v, "Skill is required",
                     "Skill cannot be empty spaces")

RECURSIVE skillsIssuesFrom(_, _)
skillsIssuesFrom(skills, i) ==
    IF i > Len(skills) THEN <<>>
    ELSE skillIssues(i, skills[i].value) \o skillsIssuesFrom(skills, i + 1)

\* z.array(...).min(1, "At least one skill is required")
skillsIssues(skills) ==
    (IF Len(skills) < 1
     THEN <<Issue(<<"skills">>, "At least one skill is required")>> ELSE <<>>)
    \o skillsIssuesFrom(skills, 1)

\* schema.safeParse(data): the issues, in the order of the keys of the shape;
\* message is z.string().optional() and raises none
schemaIssues(data) ==
    firstNameIssues(data.firstName)
    \o lastNameIssues(data.lastName)
    \o emailIssues(data.email)
    \o contactIssues(data.contact)
    \o roleIssues(data.role)
    \o skillsIssues(data.skills)

\* zodResolver: the first issue of each path becomes that field's error
resolverErrors(data) ==
    LET iss == schemaIssues(data)
    IN  {iss[i] : i \in {k \in 1..Len(iss) :
                            \A j \in 1..(k - 1) : iss[j].path # iss[k].path}}

-----------------------------------------------------------------------------
(* The form state (useForm, useFieldArray, useState) *)

ScalarFields == {"firstName", "lastName", "email", "contact", "role", "message"}

\* the options of the role select, in display order
roleOptions ==
    << EmptyStr,
       <<"s","t","u","d","e","n","t">>,
       <<"d","e","v","e","l","o","p","e","r">>,
       <<"d","e","s","i","g","n","e","r">> >>

\* what the inputs hold after construction and after reset(): the only
\* default given is skills: [{ value: "" }], every input is empty
defaultValues == [f \in ScalarFields |-> EmptyStr]

NULL == <<>>

\* the values handed to the resolver and, when valid, to onSubmit
formData(vals, flds) ==
    [firstName |-> vals.firstName,
     lastName  |-> vals.lastName,
     email     |-> vals.email,
     contact   |-> vals.contact,
     role      |-> vals.role,
     skills    |-> [i \in 1..Len(flds) |-> [value |-> flds[i].value]],
     message   |-> vals.message]

\* an identity derived from the position in the list: the mutant of generateId
generateIdByIndex(used) == Len(fields) + 1

\* generateId(): an identity no entry has had before
generateId(used) == CHOOSE i \in 1..(Cardinality(used) + 1) : i \notin used

\* removing the last element whatever the index: the mutant of removeAt
removeLast(s, i) == SubSeq(s, 1, Len(s) - 1)

\* remove(index): the list without the element at index
removeAt(s, i) == SubSeq(s, 1, i - 1) \o SubSeq(s, i + 1, Len(s))

\* the errors of the entries follow their entries when one is removed
removeErrorAt(errs, i) ==
    {e \in errs : Len(e.path) # 3}
    \cup {e \in errs : Len(e.path) = 3 /\ e.path[2] < i}
    \cup {Issue(skillPath(e.path[2] - 1), e.message) :
            e \in {x \in errs : Len(x.path) = 3 /\ x.path[2] > i}}

\* a remove button that is never disabled: the mutant of removeDisabled
removeNeverDisabled(flds) == FALSE

\* disabled={fields.length === 1}
removeDisabled(flds) == Len(flds) = 1

\* the record read back from the form once it is reset: the mutant of
\* setSubmittedData
setSubmittedDataAfterReset(data) ==
    <<formData(defaultValues, <<[id |-> 0, value |-> EmptyStr]>>)>>

\* setSubmittedData(data)
setSubmittedData(data) == <<data>>

\* a pass that stores only the errors that were not there before: the
\* mutant of submitErrors
submitErrorsOnlyNew(prev, fresh) == fresh \ prev

\* handleSubmit: the errors of the pass replace formState.errors
submitErrors(prev, fresh) == fresh

\* after a submit (reValidateMode "onChange"), a change re-runs the resolver
\* and sets or clears the error of the changed field alone
revalidate(errs, path, data) ==
    IF isSubmitted
    THEN {e \in errs : e.path # path}
         \cup {e \in resolverErrors(data) : e.path = path}
    ELSE errs

-----------------------------------------------------------------------------
(* What the user can type: a few values per input, valid and invalid *)

Ann == <<"A", "n", "n">>
Lee == <<"L", "e", "e">>
Go == <<"G", "o">>
Blank == <<" ">>
AnnAtX == <<"a","n","n","@","x",".","c","o","m">>
AnnAtXNoTld == <<"a","n","n","@","x">>
TenDigits == <<"1","2","3","4","5","6","7","8","9","0">>
Dashed == <<"1","2","3","-","4","5","6","-","7","8","9","0">>
Manager == <<"m","a","n","a","g","e","r">>

Typed(f) ==
    CASE f = "firstName" -> {EmptyStr, Ann}
      [] f = "lastName"  -> {EmptyStr, Lee}
      [] f = "email"     -> {EmptyStr, AnnAtX}
      [] f = "contact"   -> {EmptyStr, TenDigits}
      [] f = "role"      -> {roleOptions[i] : i \in 1..2}
      [] f = "message"   -> {EmptyStr}

TypedSkill == {EmptyStr, Blank, Go}

-----------------------------------------------------------------------------
(* The actions *)

Init ==
    /\ values = defaultValues
    /\ fields = <<[id |-> 1, value |-> EmptyStr]>>
    /\ errors = {}
    /\ submittedData = NULL
    /\ isSubmitted = FALSE
    /\ usedIds = {1}

\* register(name).onChange of a scalar input
Keystroke ==
    \E f \in ScalarFields : \E v \in Typed(f) :
        /\ v # values[f]
        /\ values' = [values EXCEPT ![f] = v]
        /\ errors' = revalidate(errors, <<f>>, formData(values', fields))
        /\ UNCHANGED <<fields, submittedData, isSubmitted, usedIds>>

\* register(`skills.${index}.value`).onChange: update(index, value)
UpdateAt(i, v) ==
    /\ v # fields[i].value
    /\ fields' = [fields EXCEPT ![i].value = v]
    /\ errors' = revalidate(errors, skillPath(i), formData(values, fields'))
    /\ UNCHANGED <<values, submittedData, isSubmitted, usedIds>>

Update == \E i \in 1..Len(fields) : \E v \in TypedSkill : UpdateAt(i, v)

\* onClick={() => append({ value: "" })}
AppendSkill ==
    /\ Len(fields) < MaxSkills
    /\ Cardinality(usedIds) < MaxIds
    /\ LET id == generateId(usedIds)
       IN  /\ fields' = Append(fields, [id |-> id, value |-> EmptyStr])
           /\ usedIds' = usedIds \cup {id}
    /\ UNCHANGED <<values, errors, submittedData, isSubmitted>>

\* the X button of entry index: onClick={() => remove(index)}, disabled
\* while one entry is left
RemoveAt(i) ==
    IF removeDisabled(fields)
    THEN UNCHANGED vars
    ELSE /\ fields' = removeAt(fields, i)
         /\ errors' = removeErrorAt(errors, i)
         /\ UNCHANGED <<values, submittedData, isSubmitted, usedIds>>

RemoveSkill == \E i \in 1..Len(fields) : RemoveAt(i)

\* a failed submit that also drops the stored record: the mutant of
\* HandleSubmit
HandleSubmitClearing ==
    LET data == formData(values, fields)
        fresh == resolverErrors(data)
    IN  IF fresh = {}
        THEN /\ Cardinality(usedIds) < MaxIds
             /\ submittedData' = setSubmittedData(data)
             /\ values' = defaultValues
             /\ LET id == generateId(usedIds)
                IN  /\ fields' = <<[id |-> id, value |-> EmptyStr]>>
                    /\ usedIds' = usedIds \cup {id}
             /\ errors' = {}
             /\ isSubmitted' = TRUE
        ELSE /\ errors' = submitErrors(errors, fresh)
             /\ isSubmitted' = TRUE
             /\ submittedData' = NULL
             /\ UNCHANGED <<values, fields, usedIds>>

\* handleSubmit(onSubmit): the resolver runs on the current values; with no
\* error onSubmit runs (setSubmittedData(data); reset()), otherwise the
\* errors are stored and nothing else changes
HandleSubmit ==
    LET data == formData(values, fields)
        fresh == resolverErrors(data)
    IN  IF fresh = {}
        THEN /\ Cardinality(usedIds) < MaxIds
             /\ submittedData' = setSubmittedData(data)
             /\ values' = defaultValues
             /\ LET id == generateId(usedIds)
                IN  /\ fields' = <<[id |-> id, value |-> EmptyStr]>>
                    /\ usedIds' = usedIds \cup {id}
             /\ errors' = {}
             /\ isSubmitted' = TRUE
        ELSE /\ errors' = submitErrors(errors, fresh)
             /\ isSubmitted' = TRUE
             /\ UNCHANGED <<values, fields, submittedData, usedIds>>

Next ==
    \/ Keystroke
    \/ Update
    \/ AppendSkill
    \/ RemoveSkill
    \/ HandleSubmit

Spec == Init /\ [][Next]_vars

-----------------------------------------------------------------------------
(* The inline error texts (what the JSX renders from formState.errors) *)

errorAt(errs, p) == {e \in errs : e.path = p}

\* errors.x && <p>{errors.x.message}</p> for the five scalar inputs;
\* errors.skills && <p>{errors.skills.message}</p> below the list, where
\* errors.skills.message is the message of the list itself; the textarea and
\* the skill inputs have no error paragraph
errorText(errs, p) ==
    IF p \in {<<"firstName">>, <<"lastName">>, <<"email">>, <<"contact">>,
              <<"role">>, <<"skills">>}
    THEN {e.message : e \in errorAt(errs, p)}
    ELSE {}

-----------------------------------------------------------------------------
(* The validator alone: candidate records, each submitted *)

\* k spaces
RECURSIVE Spaces(_)
Spaces(k) == IF k = 0 THEN <<>> ELSE <<" ">> \o Spaces(k - 1)

\* n digits 1 2 3 .. 9 0 1 ..
DigitStr(n) == [i \in 1..n |-> CHOOSE d \in Digits : d = ToString(i % 10)]

WithChar(s, i, c) == [s EXCEPT ![i] = c]

NameCandidates ==
    {Spaces(k) : k \in 0..MaxStrLen} \cup {Ann, <<" ", "A">>, <<"\t">>}

SkillCandidates == {EmptyStr, Blank, Go}

EmailCandidates == {EmptyStr, AnnAtX, AnnAtXNoTld}

ContactCandidates ==
    {EmptyStr, Dashed, <<"+", "1">> \o TenDigits}
    \cup {DigitStr(n) : n \in (ContactDigits - 1)..MaxContactLen}
    \cup {WithChar(TenDigits, i, c) : i \in {1, ContactDigits}, c \in {" ", "-"}}

RoleCandidates == {roleOptions[i] : i \in 1..Len(roleOptions)} \cup {Manager}

SkillLists ==
    UNION {[1..n -> SkillCandidates] : n \in 1..MaxSkills}

InitV ==
    /\ values \in [firstName : NameCandidates,
                    lastName : {EmptyStr, Blank, Lee},
                    email : EmailCandidates,
                    contact : ContactCandidates,
                    role : RoleCandidates,
                    message : {EmptyStr}]
    /\ \E sk \in SkillLists :
          fields = [i \in 1..Len(sk) |-> [id |-> i, value |-> sk[i]]]
    /\ errors = {}
    /\ submittedData = NULL
    /\ isSubmitted = FALSE
    /\ usedIds = 1..Len(fields)

NextV == HandleSubmit

SpecV == InitV /\ [][NextV]_vars

-----------------------------------------------------------------------------
(* Vocabulary of the properties *)

Data == formData(values, fields)

Present(d) == d # NULL

\* every character is white space (so is the empty string)
AllWhiteSpace(v) == \A i \in 1..Len(v) : v[i] \in WhiteSpace

WhiteSpaceOnly(v) == Len(v) >= 1 /\ AllWhiteSpace(v)

TenDigitsExactly(v) ==
    /\ Len(v) = 10
    /\ {v[i] : i \in 1..Len(v)} \subseteq Digits

EnumeratedRoles == {roleOptions[i] : i \in 2..Len(roleOptions)}

HasError(errs, p) == \E e \in errs : e.path = p /\ e.message # ""

\* the paths whose value breaks its rule of the schema, stated per field
FailingPaths(d) ==
    {p \in {<<"firstName">>} : AllWhiteSpace(d.firstName)}
    \cup {p \in {<<"lastName">>} : AllWhiteSpace(d.lastName)}
    \cup {p \in {<<"email">>} : ~isEmail(d.email)}
    \cup {p \in {<<"contact">>} : ~TenDigitsExactly(d.contact)}
    \cup {p \in {<<"role">>} : d.role = EmptyStr}
    \cup {skillPath(i) : i \in {k \in 1..Len(d.skills) :
                                   AllWhiteSpace(d.skills[k].value)}}
    \cup {p \in {<<"skills">>} : Len(d.skills) = 0}

\* the form as reset() leaves it: one empty skill entry, every input empty
FormIsReset(vals, flds) ==
    /\ vals = defaultValues
    /\ Len(flds) = 1
    /\ flds[1].value = EmptyStr

-----------------------------------------------------------------------------
(* C1: the skills list always has at least one entry, and while exactly    *)
(* one entry is left a requested remove cannot change the list.            *)
SkillsNeverEmpty ==
    /\ Len(fields) >= 1
    /\ Len(fields) = 1 => ~ENABLED (RemoveSkill /\ fields' # fields)

\* a single entry is left after the list has grown and shrunk, or after the
\* form was reset
SingleEntryAfterChanges ==
    /\ Len(fields) = 1
    /\ Cardinality(usedIds) >= 3
    /\ Present(submittedData)

(* C2: a submit of a record that passes validation stores exactly that     *)
(* record as submittedData, resets the form to one empty skill entry and   *)
(* empty inputs, and leaves no error.                                      *)
ValidSubmitCapturesAndResets ==
    [][HandleSubmit /\ FailingPaths(Data) = {}
         => /\ submittedData' = <<Data>>
            /\ FormIsReset(values', fields')
            /\ errors' = {}]_vars

AfterValidSubmit ==
    /\ Present(submittedData)
    /\ submittedData[1].firstName = Ann
    /\ submittedData[1].skills = <<[value |-> Go]>>
    /\ FormIsReset(values, fields)
    /\ errors = {}

(* C3: a submit of a record with a failing field runs no onSubmit: the     *)
(* values, the skills list and submittedData stay as they were, and the    *)
(* errors hold a message for exactly the failing fields, a failing skill   *)
(* entry's message under that entry's index.                               *)
InvalidSubmitKeepsFormAndReports ==
    [][HandleSubmit /\ FailingPaths(Data) # {}
         => /\ values' = values
            /\ fields' = fields
            /\ submittedData' = submittedData
            /\ \A p \in FailingPaths(Data) : HasError(errors', p)
            /\ \A e \in errors' : e.path \in FailingPaths(Data)]_vars

\* a failed submit has reported the blank second skill entry, and only it
\* among the entries
SecondEntryReported ==
    /\ Len(fields) = 2
    /\ fields[1].value = Go
    /\ fields[2].value = Blank
    /\ values.firstName = Ann
    /\ HasError(errors, skillPath(2))
    /\ ~HasError(errors, skillPath(1))
    /\ HasError(errors, <<"lastName">>)

(* C7: submittedData is null initially, changes only in a submit of a      *)
(* record that passes validation, and is never null again once set.        *)
SubmittedDataOnlySetByValidSubmit ==
    /\ submittedData = NULL
    /\ [][/\ submittedData' # submittedData
               => HandleSubmit /\ FailingPaths(Data) = {}
          /\ Present(submittedData) => Present(submittedData')]_vars

\* a record is stored, and the form has since been edited and shows errors
StoredRecordSurvivesFailedSubmit ==
    /\ Present(submittedData)
    /\ errors # {}
    /\ values.firstName = Ann
    /\ Len(fields) = 2

(* C8: every entry of the errors is shown as inline text for its field,    *)
(* an entry-level skill error at index i included.                         *)
EveryErrorIsDisplayed ==
    \A e \in errors : e.message \in errorText(errors, e.path)

(* C9: after a submit the errors are exactly those of the values current   *)
(* at that submit: nothing of an earlier pass is kept or merged in, and a  *)
(* submit of the same unchanged record gives the same errors again.        *)
SubmitErrorsAreFresh ==
    [][HandleSubmit
         => /\ errors' = resolverErrors(Data)
            /\ {e.path : e \in errors'} = FailingPaths(Data)
            /\ (errors = resolverErrors(Data) /\ values' = values
                    => errors' = errors)]_vars

\* the errors are those of the current values, with first name and first
\* skill, which were empty at the start, now valid and free of error
EarlierErrorsGone ==
    /\ errors # {}
    /\ {e.path : e \in errors} = FailingPaths(Data)
    /\ values.firstName = Ann
    /\ fields[1].value = Go
    /\ HasError(errors, <<"email">>)

(* C10: append adds one empty entry at the end under an identity never     *)
(* used before; remove(i) on more than one entry deletes the entry at i    *)
(* alone; update(i, v) sets the value at i alone. Every other entry keeps  *)
(* its value, identity and order; the other inputs and submittedData stay. *)
OthersKept == values' = values /\ submittedData' = submittedData

AppendFrame ==
    /\ Len(fields') = Len(fields) + 1
    /\ \A j \in 1..Len(fields) : fields'[j] = fields[j]
    /\ fields'[Len(fields')].value = EmptyStr
    /\ fields'[Len(fields')].id \notin usedIds
    /\ \A j \in 1..Len(fields) : fields'[Len(fields')].id # fields[j].id
    /\ OthersKept

RemoveFrame(i) ==
    /\ Len(fields') = Len(fields) - 1
    /\ \A j \in 1..(i - 1) : fields'[j] = fields[j]
    /\ \A j \in i..Len(fields') : fields'[j] = fields[j + 1]
    /\ OthersKept

UpdateFrame(i, v) ==
    /\ Len(fields') = Len(fields)
    /\ fields'[i] = [id |-> fields[i].id, value |-> v]
    /\ \A j \in 1..Len(fields) : j # i => fields'[j] = fields[j]
    /\ OthersKept

-----------------------------------------------------------------------------
(* The validator on candidate records (SpecV). There every state with      *)
(* errors follows a failed submit of the values it still holds, and        *)
(* submittedData is a record the validator accepted.                       *)

(* C4 as claimed: role is accepted if and only if it is one of student,    *)
(* developer, designer.                                                    *)
RoleValidIffEnumerated ==
    /\ errors # {}
         => (HasError(errors, <<"role">>) <=> values.role \notin EnumeratedRoles)
    /\ Present(submittedData) => submittedData[1].role \in EnumeratedRoles

(* C4 as amended: role is accepted if and only if it is not empty; of the  *)
(* options of the select, exactly the three named roles are accepted.      *)
RoleValidIffNonEmpty ==
    /\ errors # {}
         => /\ HasError(errors, <<"role">>) <=> values.role = EmptyStr
            /\ values.role \in {roleOptions[i] : i \in 1..Len(roleOptions)}
                 => (HasError(errors, <<"role">>)
                        <=> values.role \notin EnumeratedRoles)
    /\ Present(submittedData) => submittedData[1].role # EmptyStr

ManagerAccepted ==
    /\ Present(submittedData)
    /\ submittedData[1].role = Manager

(* C5: contact is accepted if and only if it is exactly 10 decimal digits. *)
ContactValidIffTenDigits ==
    /\ errors # {}
         => (HasError(errors, <<"contact">>) <=> ~TenDigitsExactly(values.contact))
    /\ Present(submittedData) => TenDigitsExactly(submittedData[1].contact)

\* eleven digits were submitted with everything else valid, and rejected
ElevenDigitsRejected ==
    /\ values.contact = DigitStr(11)
    /\ {e.path : e \in errors} = {<<"contact">>}

(* C6 as claimed: a whitespace-only first name, last name or skill entry   *)
(* yields the same error entry as the empty value in its place.            *)
EmptiedErrors(p) ==
    LET d == Data
    IN  IF p = <<"firstName">>
        THEN resolverErrors([d EXCEPT !.firstName = EmptyStr])
        ELSE IF p = <<"lastName">>
        THEN resolverErrors([d EXCEPT !.lastName = EmptyStr])
        ELSE resolverErrors([d EXCEPT !.skills[p[2]].value = EmptyStr])

WhiteSpacePaths ==
    {p \in {<<"firstName">>} : WhiteSpaceOnly(values.firstName)}
    \cup {p \in {<<"lastName">>} : WhiteSpaceOnly(values.lastName)}
    \cup {skillPath(i) : i \in {k \in 1..Len(fields) :
                                   WhiteSpaceOnly(fields[k].value)}}

WhiteSpaceSameAsEmpty ==
    errors # {}
      => \A p \in WhiteSpacePaths : errorAt(errors, p) = errorAt(EmptiedErrors(p), p)

(* C6 as amended: a whitespace-only value is rejected as the empty value   *)
(* is, each with an error entry for the field, under different messages.   *)
WhiteSpaceRejectedLikeEmpty ==
    errors # {}
      => \A p \in WhiteSpacePaths :
            /\ HasError(errors, p)
            /\ HasError(EmptiedErrors(p), p)
            /\ errorAt(errors, p) # errorAt(EmptiedErrors(p), p)

WhiteSpaceSubmitted ==
    /\ errors # {}
    /\ values.firstName = Spaces(2)
    /\ values.lastName = Blank
    /\ Len(fields) = 2
    /\ fields[2].value = Blank

====
